---- MODULE Spec2Model ----
(***************************************************************************)
(* Model of grade_monitor.py: the LibrusMonitor polling loop, the          *)
(* GradeTracker seen-set with its JSON file, and the EmailSender dispatch. *)
(* The process position follows the await points of LibrusMonitor.run and  *)
(* LibrusMonitor.check_for_updates.                                        *)
(***************************************************************************)
EXTENDS Integers, Sequences, FiniteSets, TLC

\* ---------------------------------------------------------------- bounds
MaxId == 2          \* grade identifiers are 1..MaxId
MaxFetchLen == 2    \* longest "Grades" list one fetch returns
MaxInt == 5         \* largest integer literal the JSON text can hold
RTMaxId == 4        \* identifiers of the save/load round trip
MaxRef == 2         \* subject, teacher and category Ids of a grade

Ids == 1..MaxId

\* What check_for_updates finds when it reads the fields of a grade:
\*   "ok"        every field present, AddDate parses
\*   "badDate"   AddDate does not match "%Y-%m-%d %H:%M:%S"
\*   "noSubject" the 'Subject' field is missing
\* response["Grades"] is kept as the list of the grades' "Id"s; the other
\* fields of a grade are drawn when the loop body reads them (CheckRecord),
\* which is the only place that reads them.
Shapes == {"ok", "badDate", "noSubject"}

RECURSIVE SeqsUpTo(_, _)
SeqsUpTo(S, n) ==
    IF n = 0 THEN {<<>>}
    ELSE LET shorter == SeqsUpTo(S, n - 1)
         IN  shorter \cup {Append(s, x) : s \in {t \in shorter : Len(t) = n - 1}, x \in S}

FetchResults == SeqsUpTo(Ids, MaxFetchLen)

\* ------------------------------------------------------- JSON text model
\* The seen-set file holds a text, modelled as a sequence of tokens:
\* "[", "]", "," (json.dumps' ", " separator), " " (whitespace), "x" (bytes
\* that are no JSON) and one token per integer literal.
IntLits == {ToString(i) : i \in 0..MaxInt}
IntOf(tok) == CHOOSE i \in 0..MaxInt : ToString(i) = tok

RECURSIVE JoinItems(_)
JoinItems(lst) ==
    IF lst = <<>> THEN <<>>
    ELSE IF Len(lst) = 1 THEN <<ToString(lst[1])>>
    ELSE <<ToString(lst[1]), ",">> \o JoinItems(Tail(lst))

\* A dump of the newest element alone instead of the whole list.
JsonDumpsLast(lst) ==
    <<"[">> \o (IF lst = <<>> THEN <<>> ELSE <<ToString(lst[Len(lst)])>>) \o <<"]">>

\* json.dumps(list_of_ints)
JsonDumps(lst) == <<"[">> \o JoinItems(lst) \o <<"]">>

\* list(a_set): every element once, in an order the set's hashing decides
ListOf(S) == {s \in [1..Cardinality(S) -> S] : \A i, j \in 1..Cardinality(S) : s[i] = s[j] => i = j}

\* str.strip()
RECURSIVE Strip(_)
Strip(text) ==
    IF text = <<>> THEN <<>>
    ELSE IF Head(text) = " " THEN Strip(Tail(text))
    ELSE IF text[Len(text)] = " " THEN Strip(SubSeq(text, 1, Len(text) - 1))
    ELSE text

\* The items between the brackets: lit ("," lit)*
RECURSIVE ItemsOk(_)
ItemsOk(body) ==
    IF body = <<>> THEN FALSE
    ELSE IF Len(body) = 1 THEN body[1] \in IntLits
    ELSE body[1] \in IntLits /\ body[2] = "," /\ ItemsOk(SubSeq(body, 3, Len(body)))

RECURSIVE ItemsOf(_)
ItemsOf(body) ==
    IF body = <<>> THEN <<>>
    ELSE IF Len(body) = 1 THEN <<IntOf(body[1])>>
    ELSE <<IntOf(body[1])>> \o ItemsOf(SubSeq(body, 3, Len(body)))

\* json.loads(text): exc when the text is no JSON document; otherwise the
\* value, a list of integers or a single integer.
JsonLoads(text) ==
    IF Len(text) >= 2 /\ text[1] = "[" /\ text[Len(text)] = "]"
    THEN LET body == SubSeq(text, 2, Len(text) - 1)
         IN  IF body = <<>> THEN [exc |-> FALSE, isList |-> TRUE, items |-> <<>>]
             ELSE IF ItemsOk(body) THEN [exc |-> FALSE, isList |-> TRUE, items |-> ItemsOf(body)]
             ELSE [exc |-> TRUE, isList |-> FALSE, items |-> <<>>]
    ELSE IF Len(text) = 1 /\ text[1] \in IntLits
    THEN [exc |-> FALSE, isList |-> FALSE, items |-> <<IntOf(text[1])>>]
    ELSE [exc |-> TRUE, isList |-> FALSE, items |-> <<>>]

Range(s) == {s[i] : i \in 1..Len(s)}

\* ------------------------------------------------------------- GradeTracker
\* The try body of GradeTracker.load: exc when an exception leaves it.
LoadBody(exists, text, cur) ==
    IF ~exists THEN [exc |-> FALSE, val |-> cur]
    ELSE LET content == Strip(text)
         IN  IF content = <<>> THEN [exc |-> FALSE, val |-> cur]
             ELSE LET doc == JsonLoads(content)
                  IN  IF doc.exc \/ ~doc.isList
                      THEN [exc |-> TRUE, val |-> cur]
                      ELSE [exc |-> FALSE, val |-> Range(doc.items)]

\* Mutant of TrackerLoad: load without its except clause.
TrackerLoadNoExcept(exists, text, cur) == LoadBody(exists, text, cur)

\* GradeTracker.load with its except clause
TrackerLoad(exists, text, cur) ==
    LET body == LoadBody(exists, text, cur)
    IN  IF body.exc THEN [exc |-> FALSE, val |-> {}] ELSE body

\* Mutant of SaveTexts: save writes str(known_grades), "{1, 2}" or "set()",
\* which is no JSON document.
SaveTextsRepr(known) == {<<"x">> \o JoinItems(lst) \o <<"x">> : lst \in ListOf(known)}

\* The texts a complete GradeTracker.save can leave in the file
SaveTexts(known) == {JsonDumps(lst) : lst \in ListOf(known)}

\* The texts an interrupted write_text leaves: open() has truncated the
\* file and only a proper prefix of the text was written.
PartialTexts(known) ==
    UNION {{SubSeq(t, 1, n) : n \in 0..(Len(t) - 1)} : t \in SaveTexts(known)}

\* Mutant of AddKnown: the seen-set is replaced by the new identifier.
AddKnownReplacing(known, id) == {id}

\* known_grades.add(grade_id)
AddKnown(known, id) == known \cup {id}

\* ------------------------------------------------- format_grade_info
\* Text is a sequence of string tokens.  The metadata snapshot is api_data
\* as the three lookups read it: the Ids present in api_data['Subjects']
\* ['Subjects'], ['Users']['Users'] and ['Grades/Categories']['Categories'].
\* A key that is absent reads as the empty list (.get with a default).
Refs == 1..MaxRef

Snapshots == [Subjects : SUBSET Refs, Users : SUBSET Refs, Categories : SUBSET Refs]

\* api_data = {} as __init__ sets it, and as load_api_data leaves it when
\* api_dump.json is missing or cannot be parsed.
EmptySnapshot == [Subjects |-> {}, Users |-> {}, Categories |-> {}]

\* A grade of the response: how well-formed it is and the Ids it refers to.
Grades == [shape : Shapes, subject : Refs, teacher : Refs, category : Refs,
           comments : BOOLEAN]

NoGrade == [shape |-> "none", subject |-> 0, teacher |-> 0, category |-> 0,
            comments |-> FALSE]

\* load_api_data: the file is missing (api_data stays), json.loads raises
\* (api_data = {}), or the file holds the snapshot.
LoadApiData(kind, data, cur) ==
    IF kind = "missing" THEN cur
    ELSE IF kind = "invalid" THEN EmptySnapshot
    ELSE data

SubjectName(r) == <<"Name of subject ", ToString(r)>>
SubjectPlaceholder(r) == <<"Subject ID: ", ToString(r)>>
TeacherName(r) == <<"FirstName of user ", ToString(r), " ", "LastName of user ", ToString(r)>>
TeacherPlaceholder(r) == <<"Unknown", " ", "Teacher (ID: ", ToString(r), ")">>
CategoryName(r) == <<"Name of category ", ToString(r)>>
CategoryPlaceholder(r) == <<"Category ", ToString(r)>>

\* next() with no default: StopIteration when no entry has the Id.
NextNoDefault(present, r, found, default) ==
    [exc |-> r \notin present, val |-> found]

\* next((... for x in list if x['Id'] == r), default)
NextOr(present, r, found, default) ==
    [exc |-> FALSE, val |-> IF r \in present THEN found ELSE default]

RECURSIVE JoinLines(_)
\* "\n".join(grade_info)
JoinLines(ls) ==
    IF ls = <<>> THEN <<>>
    ELSE IF Len(ls) = 1 THEN ls[1]
    ELSE ls[1] \o <<"\n">> \o JoinLines(Tail(ls))

\* str(grade): the raw repr of the dict, with the fields the grade has.
StrGrade(g) ==
    <<"{'AddDate': ", IF g.shape = "badDate" THEN "'not a date'" ELSE "'date'">>
    \o (IF g.shape = "noSubject" THEN <<>>
        ELSE <<", 'Subject': {'Id': ", ToString(g.subject), "}">>)
    \o <<", 'AddedBy': {'Id': ", ToString(g.teacher), "}",
         ", 'Category': {'Id': ", ToString(g.category), "}",
         ", 'Grade': 'grade'",
         IF g.comments THEN ", 'Comments': [...]}" ELSE "}">>

Contains(text, sub) ==
    \E i \in 0..(Len(text) - Len(sub)) : SubSeq(text, i + 1, i + Len(sub)) = sub

\* format_grade_info(grade): the body of the try, and str(grade) when it
\* raised (strptime on a malformed AddDate, KeyError on a missing field).
FormatGradeInfo(api, g) ==
    LET s == NextOr(api.Subjects, g.subject, SubjectName(g.subject),
                    SubjectPlaceholder(g.subject))
        t == NextOr(api.Users, g.teacher, TeacherName(g.teacher),
                    TeacherPlaceholder(g.teacher))
        c == NextOr(api.Categories, g.category, CategoryName(g.category),
                    CategoryPlaceholder(g.category))
        w == IF g.category \in api.Categories
             THEN <<"Weight of category ", ToString(g.category)>>
             ELSE <<"N/A">>
        exc == g.shape # "ok" \/ s.exc \/ t.exc \/ c.exc
        lines == << <<"Przedmiot: ">> \o s.val,
                    <<"Ocena: ", "grade">>,
                    <<"Kategoria: ">> \o c.val \o <<" (waga: ">> \o w \o <<")">>,
                    <<"Nauczyciel: ">> \o t.val,
                    <<"Data: ", "date">> >>
                 \o (IF g.comments THEN << <<"Komentarz dodany do oceny">> >> ELSE <<>>)
    IN  IF exc THEN StrGrade(g) ELSE JoinLines(lines)

\* ---------------------------------------------------------------- state
VARIABLES
    pc,            \* where the process is (see PcValues)
    known_grades,  \* GradeTracker.known_grades, the in-memory seen-set
    path_exists,   \* whether known_grades.json exists
    path_text,     \* the text of known_grades.json
    response,      \* response["Grades"] of the cycle in progress (the "Id"s)
    shape,         \* what the loop body found in the grade it is dispatching
    idx,           \* position of the for loop in response["Grades"]
    authOk,        \* what mktoken returned in this run
    cfgOk,         \* whether this run got its configuration
    exit_status,   \* "running", or how the process ended: "0" or "nonzero"
    api_data,      \* LibrusMonitor.api_data, the metadata snapshot
    grade,         \* the grade handed to format_grade_info
    grade_info,    \* the text format_grade_info returned
    watch,         \* which of the histories below a specification records
    delivered,     \* history: identifiers for which a send_email succeeded
    called,        \* history: identifiers with a send_email call
    repeated,      \* history: identifiers with more than one send_email call
    failed,        \* history: identifiers whose latest send_email failed
    attempts,      \* history: identifiers dispatched in this cycle, in order
    did,           \* history: what this run of the process has done
    malformed,     \* history: positions of this cycle's grades found malformed
    lastFetch,     \* history: how this cycle's get_data ended
    unsaved,       \* history: identifiers added in this run whose save failed
    saved,         \* history: how the latest save of this run ended
    clean          \* history: one run, no crash, no failed send or save

proc == <<cfgOk, exit_status>>
prog == <<pc, known_grades, path_exists, path_text, response, shape, idx, authOk, proc>>
hist == <<delivered, called, repeated, failed, attempts, did, clean, malformed, lastFetch,
          unsaved, saved>>
fmt == <<api_data, grade, grade_info>>
vars == <<prog, fmt, watch, hist>>

PcValues == {"Idle", "Authenticating", "StartupNotify", "Running", "Checking",
             "Dispatching", "Sleeping", "ShuttingDown", "Stopped", "Crashed",
             "rtSave", "rtLoad", "rtDone", "fmtLoad", "fmtFormat", "fmtDone"}
LoopPcs == {"Running", "Checking", "Dispatching", "Sleeping"}
LivePcs == LoopPcs \cup {"Authenticating", "StartupNotify", "ShuttingDown"}

Histories == {"delivered", "calls", "failed", "attempts", "did", "clean",
              "malformed", "fetch", "unsaved", "saved"}

\* The seen-set files the monitor can find when it is first started.
InitFiles ==
    { [exists |-> FALSE, text |-> <<>>],
      [exists |-> TRUE,  text |-> <<>>],
      [exists |-> TRUE,  text |-> <<" ">>],
      [exists |-> TRUE,  text |-> <<"x">>],
      [exists |-> TRUE,  text |-> JsonDumps(<<>>)] }

\* The state after LibrusMonitor() was constructed, before run(): the file
\* as found, nothing fetched, no history.
InitFile == \E f \in InitFiles : path_exists = f.exists /\ path_text = f.text

InitRest ==
    /\ response = <<>>
    /\ shape = "none"
    /\ idx = 1
    /\ authOk = "pending"
    /\ cfgOk = "pending"
    /\ exit_status = "running"
    /\ delivered = {}
    /\ called = {}
    /\ repeated = {}
    /\ failed = {}
    /\ attempts = <<>>
    /\ did = {}
    /\ clean = TRUE
    /\ malformed = {}
    /\ lastFetch = "pending"
    /\ unsaved = {}
    /\ saved = "none"
    /\ api_data = EmptySnapshot
    /\ grade_info = <<>>

\* The state after LibrusMonitor() was constructed, before run().
InitState ==
    /\ pc = "Idle"
    /\ known_grades = {}
    /\ InitFile
    /\ grade = NoGrade
    /\ InitRest

\* What the process holds on disk, as a later load would read it.
Persisted == TrackerLoad(path_exists, path_text, {}).val

\* ------------------------------------------------------------ histories
\* The histories of one send_email call for a grade.
Sent(id, ok) ==
    /\ delivered' = IF "delivered" \in watch /\ ok THEN delivered \cup {id} ELSE delivered
    /\ called' = IF "calls" \in watch THEN called \cup {id} ELSE called
    /\ repeated' = IF "calls" \in watch /\ id \in called THEN repeated \cup {id} ELSE repeated
    /\ failed' = IF "failed" \in watch
                 THEN (IF ok THEN failed \ {id} ELSE failed \cup {id})
                 ELSE failed
    /\ attempts' = IF "attempts" \in watch THEN Append(attempts, id) ELSE attempts

NotSent == UNCHANGED <<delivered, called, repeated, failed, attempts>>

Did(what) == did' = IF "did" \in watch THEN did \cup what ELSE did

Clean(still) == clean' = IF "clean" \in watch THEN (clean /\ still) ELSE clean

Malformed(what) == malformed' = IF "malformed" \in watch THEN what ELSE malformed

Fetched(kind) == lastFetch' = IF "fetch" \in watch THEN kind ELSE lastFetch

Unsaved(what) == unsaved' = IF "unsaved" \in watch THEN what ELSE unsaved

Saved(how) == saved' = IF "saved" \in watch THEN how ELSE saved

\* ------------------------------------------------------------- __main__
\* The exit status of the script: asyncio.run(monitor.run()) returns and the
\* script ends ("returned"), an exception leaves asyncio.run ("raised"), or
\* the process is killed ("killed").
ExitStatus(how) == IF how = "returned" THEN "0" ELSE "nonzero"

\* ------------------------------------------------------------- run()
\* run() up to the mktoken call: configuration, EmailSender, load_api_data,
\* grade_tracker.load().
StartRun(cfg) ==
    /\ pc = "Idle"
    /\ IF cfg = "failed"
       THEN /\ pc' = "Stopped"
            /\ cfgOk' = "failed"
            /\ exit_status' = ExitStatus("returned")
            /\ UNCHANGED known_grades
       ELSE LET r == TrackerLoad(path_exists, path_text, known_grades)
            IN  /\ cfgOk' = "ok"
                /\ IF r.exc
                   THEN /\ pc' = "Crashed"
                        /\ exit_status' = ExitStatus("raised")
                        /\ UNCHANGED known_grades
                   ELSE /\ pc' = "Authenticating"
                        /\ known_grades' = r.val
                        /\ UNCHANGED exit_status
    /\ UNCHANGED <<path_exists, path_text, response, shape, idx, authOk, fmt, watch, hist>>

\* Mutant of AfterAuth: the result of mktoken is not looked at.
AfterAuthIgnored(ok) == "StartupNotify"

\* Where run() goes after librus.mktoken returned ok.
AfterAuth(ok) == IF ok THEN "StartupNotify" ELSE "Stopped"

\* await librus.mktoken(...): returns True, returns False, or raises.
Authenticate(res) ==
    /\ pc = "Authenticating"
    /\ authOk' = res
    /\ pc' = IF res = "raised" THEN "Crashed" ELSE AfterAuth(res = "ok")
    /\ exit_status' = CASE res = "raised" -> ExitStatus("raised")
                         [] pc' = "Stopped" -> ExitStatus("returned")
                         [] OTHER -> exit_status
    /\ UNCHANGED <<known_grades, path_exists, path_text, response, shape, idx,
                   cfgOk, fmt, watch, hist>>

\* await send_email("Monitor Librus uruchomiony", ...): result discarded.
StartupNotify(ok) ==
    /\ pc = "StartupNotify"
    /\ pc' = "Running"
    /\ Did({"startup"})
    /\ UNCHANGED <<known_grades, path_exists, path_text, response, shape, idx,
                   authOk, proc, fmt, watch, clean, malformed, lastFetch, unsaved, saved>>
    /\ NotSent

\* ------------------------------------------------- check_for_updates()
\* Mutant of RecordAt: the loop walks the grades newest first.
RecordAtReversed(resp, i) == resp[Len(resp) + 1 - i]

\* for grade in response["Grades"]: the "Id" of the grade the loop is at
RecordAt(resp, i) == resp[i]

\* Where the loop goes after the grade at position i.
NextPc(resp, i) == IF i + 1 > Len(resp) THEN "Sleeping" ELSE "Checking"

\* The membership test dropped: every grade of the response counts as new.
IsNewAlways(known, id) == TRUE

\* grade_id not in self.grade_tracker.known_grades
IsNew(known, id) == id \notin known

\* What an exception that reaches the except clause of check_for_updates
\* would do if the clause were missing: it reaches the except clause of
\* run(), which logs and lets run() return.
OnCycleErrorEndsRun == "Stopped"

\* Where check_for_updates goes when an exception reaches its except clause:
\* it logs and returns, and run() goes to sleep.
OnCycleError == "Sleeping"

\* A failed fetch taken as fatal: the run ends instead of skipping the cycle.
AfterFetchFatal(kind, grades) ==
    IF kind # "ok" THEN "Stopped"
    ELSE IF grades # <<>> THEN "Checking"
    ELSE "Sleeping"

\* Where check_for_updates goes after get_data: the call raised; it returned
\* None or an object without "Grades" (return); or the loop starts, which
\* ends at once on an empty list.
AfterFetch(kind, grades) ==
    IF kind = "raise" THEN OnCycleError
    ELSE IF kind = "ok" /\ grades # <<>> THEN "Checking"
    ELSE "Sleeping"

\* await librus.get_data("Grades") and the guard on its result:
\* the call raises, returns None, returns an object without "Grades",
\* or returns the grades.
Fetch(kind, grades) ==
    /\ pc = "Running"
    /\ Did({"fetch"})
    /\ attempts' = <<>>
    /\ idx' = 1
    /\ pc' = AfterFetch(kind, grades)
    /\ response' = IF kind = "ok" THEN grades ELSE <<>>
    /\ Fetched(kind)
    /\ Malformed({})
    /\ UNCHANGED <<known_grades, path_exists, path_text, shape, authOk, proc, fmt, watch,
                   delivered, called, repeated, failed, clean, unsaved, saved>>

\* One pass of the loop body up to the await of send_email: the membership
\* test, format_grade_info (which catches its own exceptions) and the
\* subject lookup grade['Subject']['Id'], whose KeyError ends the cycle in
\* the except clause of check_for_updates.
CheckRecord(sh) ==
    /\ pc = "Checking"
    /\ IF ~IsNew(known_grades, RecordAt(response, idx))
       THEN /\ pc' = NextPc(response, idx) /\ idx' = idx + 1
            /\ UNCHANGED <<shape, malformed>>
       ELSE /\ Malformed(IF sh = "ok" THEN malformed ELSE malformed \cup {idx})
            /\ IF sh = "noSubject"
               THEN pc' = OnCycleError /\ UNCHANGED <<idx, shape>>
               ELSE pc' = "Dispatching" /\ shape' = sh /\ UNCHANGED idx
    /\ UNCHANGED <<known_grades, path_exists, path_text, response, authOk, proc, fmt, watch,
                   delivered, called, repeated, failed, attempts, did, clean,
                   lastFetch, unsaved, saved>>

\* Both mutations put off to the end of the cycle: the set the loop tests
\* against is not updated by the records before.
MarkSeenAtEnd(known, id, ok) == known

\* The seen-set after send_email returned ok: the result is discarded and
\* the identifier is added.
MarkSeen(known, id, ok) == AddKnown(known, id)

\* send_email returns ok; known_grades.add; GradeTracker.save, which writes
\* the whole text ("ok"), fails before opening the file ("noopen") or fails
\* after a part of the text was written ("partial"), and logs its error.
DispatchDone(ok, how) ==
    /\ pc = "Dispatching"
    /\ LET id == RecordAt(response, idx)
           known == MarkSeen(known_grades, id, ok)
       IN  /\ Sent(id, ok)
           /\ known_grades' = known
           /\ CASE how = "ok" ->
                     /\ path_exists' = TRUE
                     /\ path_text' \in SaveTexts(known)
                [] how = "noopen" ->
                     UNCHANGED <<path_exists, path_text>>
                [] how = "partial" ->
                     /\ path_exists' = TRUE
                     /\ path_text' \in PartialTexts(known)
    /\ Did({"dispatch", "add"})
    /\ Clean(ok /\ how = "ok")
    /\ Unsaved(IF how = "ok" THEN unsaved ELSE unsaved \cup {RecordAt(response, idx)})
    /\ Saved(IF how = "ok" THEN "ok" ELSE "failed")
    /\ pc' = NextPc(response, idx)
    /\ idx' = idx + 1
    /\ shape' = "none"
    /\ UNCHANGED <<response, authOk, proc, fmt, watch, malformed, lastFetch>>

\* Where run() goes when the sleep returns: while True.
AfterSleep == "Running"

\* await asyncio.sleep(check_interval) returns.
Wake ==
    /\ pc = "Sleeping"
    /\ pc' = AfterSleep
    /\ Fetched("pending")
    /\ UNCHANGED <<known_grades, path_exists, path_text, response, shape, idx,
                   authOk, proc, fmt, watch, delivered, called, repeated, failed,
                   attempts, did, clean, malformed, unsaved, saved>>

\* ------------------------------------------------------ crash and restart
\* The process dies (kill, power loss) at an await point.
Crash ==
    /\ pc \in LivePcs
    /\ pc' = "Crashed"
    /\ Clean(FALSE)
    /\ NotSent
    /\ exit_status' = ExitStatus("killed")
    /\ UNCHANGED <<known_grades, path_exists, path_text, response, shape, idx,
                   authOk, cfgOk, fmt, watch, did, malformed, lastFetch, unsaved, saved>>

\* The process dies after the mail was handed over and before
\* known_grades.add.
CrashAfterSend ==
    /\ pc = "Dispatching"
    /\ Sent(RecordAt(response, idx), TRUE)
    /\ pc' = "Crashed"
    /\ Did({"dispatch"})
    /\ Clean(FALSE)
    /\ exit_status' = ExitStatus("killed")
    /\ UNCHANGED <<known_grades, path_exists, path_text, response, shape, idx,
                   authOk, cfgOk, fmt, watch, malformed, lastFetch, unsaved, saved>>

\* The process dies inside write_text: the file is truncated and holds a
\* proper prefix of the text.
CrashDuringSave(ok) ==
    /\ pc = "Dispatching"
    /\ LET id == RecordAt(response, idx)
           known == MarkSeen(known_grades, id, ok)
       IN  /\ Sent(id, ok)
           /\ known_grades' = known
           /\ path_exists' = TRUE
           /\ path_text' \in PartialTexts(known)
    /\ pc' = "Crashed"
    /\ Did({"dispatch", "add"})
    /\ Clean(FALSE)
    /\ Unsaved(unsaved \cup {RecordAt(response, idx)})
    /\ Saved("failed")
    /\ exit_status' = ExitStatus("killed")
    /\ UNCHANGED <<response, shape, idx, authOk, cfgOk, fmt, watch, malformed, lastFetch>>

\* The monitor is started again: a new process with a new GradeTracker.
Restart ==
    /\ pc \in {"Stopped", "Crashed"}
    /\ pc' = "Idle"
    /\ known_grades' = {}
    /\ response' = <<>>
    /\ shape' = "none"
    /\ idx' = 1
    /\ authOk' = "pending"
    /\ attempts' = <<>>
    /\ did' = {}
    /\ Clean(FALSE)
    /\ cfgOk' = "pending"
    /\ exit_status' = "running"
    /\ malformed' = {}
    /\ lastFetch' = "pending"
    /\ unsaved' = {}
    /\ saved' = "none"
    /\ UNCHANGED <<path_exists, path_text, fmt, watch, delivered, called, repeated, failed>>

\* ------------------------------------------------------------- interrupt
\* SIGINT while the loop runs.  KeyboardInterrupt raised inside the
\* coroutine reaches the except clause of run() (caught); when the event
\* loop is interrupted or cancels the task instead, run() ends without it.
\* At the await of send_email the mail may already have left (sent).
Interrupt(caught, sent) ==
    /\ pc \in LoopPcs
    /\ sent => pc = "Dispatching"
    /\ pc' = IF caught THEN "ShuttingDown" ELSE "Stopped"
    /\ exit_status' = IF caught THEN exit_status ELSE ExitStatus("raised")
    /\ IF sent
       THEN Sent(RecordAt(response, idx), TRUE) /\ Did({"interrupt", "dispatch"})
       ELSE NotSent /\ Did({"interrupt"})
    /\ UNCHANGED <<known_grades, path_exists, path_text, response, shape, idx,
                   authOk, cfgOk, fmt, watch, clean, malformed, lastFetch, unsaved, saved>>

\* await send_email("Monitor Librus zatrzymany", ...): result discarded.
FinalNotify(ok) ==
    /\ pc = "ShuttingDown"
    /\ pc' = "Stopped"
    /\ Did({"final"})
    /\ NotSent
    /\ exit_status' = ExitStatus("returned")
    /\ UNCHANGED <<known_grades, path_exists, path_text, response, shape, idx,
                   authOk, cfgOk, fmt, watch, clean, malformed, lastFetch, unsaved, saved>>

Next ==
    \/ \E cfg \in {"loaded", "setup", "failed"} : StartRun(cfg)
    \/ \E res \in {"ok", "failed", "raised"} : Authenticate(res)
    \/ \E ok \in BOOLEAN : StartupNotify(ok)
    \/ \E kind \in {"raise", "none", "nokey"} : Fetch(kind, <<>>)
    \/ \E grades \in FetchResults : Fetch("ok", grades)
    \/ \E sh \in Shapes : CheckRecord(sh)
    \/ \E ok \in BOOLEAN, how \in {"ok", "noopen", "partial"} : DispatchDone(ok, how)
    \/ Wake
    \/ Crash
    \/ CrashAfterSend
    \/ \E ok \in BOOLEAN : CrashDuringSave(ok)
    \/ Restart
    \/ \E caught \in BOOLEAN, sent \in BOOLEAN : Interrupt(caught, sent)
    \/ \E ok \in BOOLEAN : FinalNotify(ok)

\* The program alone, no history recorded.
Init == InitState /\ watch = {}
Spec == Init /\ [][Next]_vars

TypeOK ==
    /\ pc \in PcValues
    /\ known_grades \subseteq Ids
    /\ path_exists \in BOOLEAN
    /\ response \in FetchResults
    /\ shape \in Shapes \cup {"none"}
    /\ idx \in 1..(MaxFetchLen + 1)
    /\ authOk \in {"pending", "ok", "failed", "raised"}
    /\ cfgOk \in {"pending", "ok", "failed"}
    /\ exit_status \in {"running", "0", "nonzero"}
    /\ api_data \in Snapshots
    /\ grade \in Grades \cup {NoGrade}
    /\ grade_info \in Seq(STRING)
    /\ watch \subseteq Histories
    /\ delivered \subseteq Ids
    /\ called \subseteq Ids
    /\ repeated \subseteq Ids
    /\ failed \subseteq Ids
    /\ did \subseteq {"startup", "fetch", "dispatch", "add", "interrupt", "final"}
    /\ malformed \subseteq 1..MaxFetchLen
    /\ lastFetch \in {"pending", "raise", "none", "nokey", "ok"}
    /\ unsaved \subseteq Ids
    /\ saved \in {"none", "ok", "failed"}
    /\ clean \in BOOLEAN

\* ============================================================ properties
\* Specifications that record the histories their properties read.
InitDelivered == InitState /\ watch = {"delivered"}
SpecDelivered == InitDelivered /\ [][Next]_vars

InitFailed == InitState /\ watch = {"failed", "attempts"}
SpecFailed == InitFailed /\ [][Next]_vars

InitOnce == InitState /\ watch = {"calls", "clean"}
SpecOnce == InitOnce /\ [][Next]_vars

InitOrder == InitState /\ watch = {"attempts"}
SpecOrder == InitOrder /\ [][Next]_vars

InitRun == InitState /\ watch = {"did"}
SpecRun == InitRun /\ [][Next]_vars

\* C1: an identifier is in the seen-set, in memory or in the file, only if
\* a dispatch for that record has succeeded before.
C1_SeenOnlyAfterDelivery ==
    /\ known_grades \subseteq delivered
    /\ Persisted \subseteq delivered

\* C2: an identifier whose dispatch failed in a cycle is absent from the
\* persisted seen-set at the end of that cycle, and when a later cycle's
\* loop reaches that record it is detected as new again.
C2_FailedDispatchRetried ==
    /\ pc = "Sleeping" =>
          \A id \in failed : id \in Range(attempts) => id \notin Persisted
    /\ (pc = "Checking" /\ RecordAt(response, idx) \in failed
            /\ RecordAt(response, idx) \notin Range(attempts))
          => IsNew(known_grades, RecordAt(response, idx))

\* C3: in one run without crash and with every dispatch and persist
\* succeeding, no identifier is dispatched twice, and at the end of a cycle
\* every identifier of its fetch result has been dispatched (exactly once).
C3_DispatchedExactlyOnce ==
    clean =>
        /\ repeated = {}
        /\ pc = "Sleeping" => Range(response) \subseteq called

\* C4: at the end of a cycle whose fetch succeeded, every record of the
\* fetch result that was not in the seen-set has had a dispatch attempt in
\* this cycle (what is in the seen-set without an attempt in this cycle was
\* in it when the cycle began).
C4_EveryNewRecordAttempted ==
    pc = "Sleeping" =>
        \A id \in Range(response) : id \in Range(attempts) \/ id \in known_grades

\* The first position of an identifier in a fetch result.
FirstPos(resp, id) == CHOOSE i \in 1..Len(resp) : resp[i] = id /\ \A j \in 1..(i - 1) : resp[j] # id

\* C5: within one cycle the dispatch attempts follow the order of the fetch
\* result: of two dispatched records, the one the remote client returned
\* first is dispatched first.
C5_DispatchInFetchOrder ==
    \A i, j \in 1..Len(attempts) :
        /\ attempts[i] \in Range(response)
        /\ i < j => FirstPos(response, attempts[i]) < FirstPos(response, attempts[j])

\* C5 witness: two records were dispatched in one cycle.
C5_Witness == Len(attempts) = 2 /\ pc = "Sleeping"

\* C6: after the startup load the in-memory seen-set only grows: no step of
\* the running monitor removes an identifier.
C6_SeenSetMonotone ==
    [][(pc # "Idle" /\ pc' # "Idle") => known_grades \subseteq known_grades']_vars

\* C6 witness: the running monitor has added two identifiers.
C6_Witness == pc \in LoopPcs /\ Cardinality(known_grades) = 2

\* C7: whenever the seen-set file changes, it holds the complete text of a
\* set afterwards, never a part of one.
C7_PersistAtomic ==
    [][(<<path_exists, path_text>>' # <<path_exists, path_text>>)
        => (path_exists' /\ \E S \in SUBSET Ids : path_text' \in SaveTexts(S))]_vars

\* The file is missing, empty, or holds no JSON document.
Unreadable ==
    \/ ~path_exists
    \/ Strip(path_text) = <<>>
    \/ JsonLoads(Strip(path_text)).exc

\* C8: when run() loads a missing, empty or malformed seen-set file, load()
\* does not raise, the seen-set is empty, and run() goes on to authenticate.
C8_LoadFailsSoft ==
    [][(pc = "Idle" /\ pc' \notin {"Idle", "Stopped"} /\ Unreadable)
        => (pc' = "Authenticating" /\ known_grades' = {})]_vars

\* C8 witness: the monitor is authenticating after loading a malformed file.
C8_Witness ==
    /\ pc = "Authenticating"
    /\ path_exists /\ Strip(path_text) # <<>> /\ JsonLoads(Strip(path_text)).exc
    /\ known_grades = {}

\* C10: after a failed authentication the run has stopped and has fetched
\* nothing, dispatched nothing (no startup notification either) and left
\* the seen-set as loaded.
C10_AuthFailureFatal ==
    authOk = "failed" =>
        /\ pc = "Stopped"
        /\ did = {}
        /\ response = <<>> /\ attempts = <<>>
        /\ known_grades = Persisted

\* C10 witness: a run whose authentication failed.
C10_Witness == authOk = "failed" /\ pc = "Stopped"

\* ------------------------------------------------ save/load round trip
\* A tracker holding any set saves it; a new tracker loads the file.
InitRT ==
    /\ pc = "rtSave"
    /\ known_grades \in SUBSET (1..RTMaxId)
    /\ InitFile
    /\ grade = NoGrade
    /\ InitRest
    /\ watch = {}

\* GradeTracker.save() of the set, the write succeeding.
RTSave ==
    /\ pc = "rtSave"
    /\ pc' = "rtLoad"
    /\ path_exists' = TRUE
    /\ path_text' \in SaveTexts(known_grades)
    /\ UNCHANGED <<known_grades, response, shape, idx, authOk, proc, fmt, watch, hist>>

\* GradeTracker().load() of the file by a new tracker.
RTLoad ==
    /\ pc = "rtLoad"
    /\ pc' = "rtDone"
    /\ known_grades' = TrackerLoad(path_exists, path_text, {}).val
    /\ UNCHANGED <<path_exists, path_text, response, shape, idx, authOk, proc, fmt, watch, hist>>

NextRT == RTSave \/ RTLoad

SpecRT == InitRT /\ [][NextRT]_vars

\* C9: saving a set of integers and loading the file into a new tracker
\* yields the same set, the empty set included.
C9_SaveLoadRoundTrip ==
    [][(pc = "rtLoad" /\ pc' = "rtDone") => known_grades' = known_grades]_vars

\* C9 witness: a set of several identifiers went through save and load.
C9_Witness == pc = "rtDone" /\ Cardinality(known_grades) >= 2

\* C9 witness for the empty set is the same round trip with no identifier.
C9_WitnessEmpty == pc = "rtDone" /\ known_grades = {} /\ path_text = JsonDumps(<<>>)

\* C11: when the monitor stops because authentication failed, or because
\* the configuration could be neither loaded nor set up, the process ends
\* with a non-zero exit status.
C11_FatalExitNonZero ==
    (pc = "Stopped" /\ (authOk = "failed" \/ cfgOk = "failed"))
        => exit_status = "nonzero"

\* ------------------------------------------------------------ the loop alone
\* The run with no interrupt and no kill: every await of the loop returns or
\* raises (get_data, send_email, sleep), and the synchronous code between two
\* awaits runs to its end.
InitLive == InitState /\ watch = {"fetch"}

LoopStep ==
    \/ \E kind \in {"raise", "none", "nokey"} : Fetch(kind, <<>>)
    \/ \E grades \in FetchResults : Fetch("ok", grades)
    \/ \E sh \in Shapes : CheckRecord(sh)
    \/ \E ok \in BOOLEAN, how \in {"ok", "noopen", "partial"} : DispatchDone(ok, how)
    \/ Wake

NextLive ==
    \/ \E cfg \in {"loaded", "setup", "failed"} : StartRun(cfg)
    \/ \E res \in {"ok", "failed", "raised"} : Authenticate(res)
    \/ \E ok \in BOOLEAN : StartupNotify(ok)
    \/ LoopStep

SpecLive == InitLive /\ [][NextLive]_vars /\ WF_vars(LoopStep)

\* C12: with no interrupt, a cycle in which an exception was raised (by the
\* fetch, a malformed record, the dispatch or the save) does not end the
\* process: from every point of the loop the monitor reaches the sleep, and
\* from the sleep it starts the next cycle, so cycles are started forever.
C12_BadCycleNeverTerminates ==
    /\ (pc \in LoopPcs) ~> (pc = "Sleeping")
    /\ (pc = "Sleeping") ~> (pc = "Running")

C12_Witness ==
    /\ pc = "Sleeping"
    /\ lastFetch = "raise"
    /\ path_text \notin SaveTexts(known_grades)
    /\ Cardinality(known_grades) = 2

\* C13: once an interrupt has arrived in the loop, no further step of the
\* loop is taken, and the monitor does not reach Stopped without having
\* attempted the final "monitor stopped" notification.
C13_GracefulShutdown ==
    "interrupt" \in did =>
        /\ pc \notin LoopPcs
        /\ pc = "Stopped" => "final" \in did

\* --------------------------------------------- formatting against a snapshot
\* load_api_data() and then format_grade_info(grade), for every grade and
\* every snapshot within the bounds.
InitFmt ==
    /\ pc = "fmtLoad"
    /\ known_grades = {}
    /\ path_exists = FALSE
    /\ path_text = <<>>
    /\ grade \in Grades
    /\ InitRest
    /\ watch = {}

FmtLoad(kind, data) ==
    /\ pc = "fmtLoad"
    /\ pc' = "fmtFormat"
    /\ api_data' = LoadApiData(kind, data, api_data)
    /\ UNCHANGED <<known_grades, path_exists, path_text, response, shape, idx,
                   authOk, proc, grade, grade_info, watch, hist>>

FmtFormat ==
    /\ pc = "fmtFormat"
    /\ pc' = "fmtDone"
    /\ grade_info' = FormatGradeInfo(api_data, grade)
    /\ UNCHANGED <<known_grades, path_exists, path_text, response, shape, idx,
                   authOk, proc, api_data, grade, watch, hist>>

NextFmt ==
    \/ \E kind \in {"missing", "invalid"} : FmtLoad(kind, EmptySnapshot)
    \/ \E data \in Snapshots : FmtLoad("ok", data)
    \/ FmtFormat

SpecFmt == InitFmt /\ [][NextFmt]_vars

C14_WitnessEmptySnapshot ==
    /\ pc = "fmtDone"
    /\ grade.shape = "ok"
    /\ api_data = EmptySnapshot
    /\ Contains(grade_info, TeacherPlaceholder(grade.teacher))

\* The run, with the dispatch attempts of the cycle and the positions of its
\* malformed grades recorded.
InitSkip == InitState /\ watch = {"attempts", "malformed"}
SpecSkip == InitSkip /\ [][Next]_vars

\* C15: a malformed grade is skipped on its own.  No dispatch is made for a
\* grade found malformed, so that its Id is not added either; and when the
\* cycle is over, every other grade of the response has been dispatched in
\* this cycle or was known already.
C15_MalformedSkippedAlone ==
    /\ pc = "Dispatching" => shape = "ok"
    /\ pc = "Sleeping" =>
         \A i \in 1..Len(response) :
            IF i \in malformed
            THEN (\A j \in 1..Len(response) : response[j] = response[i] => j = i)
                    => /\ response[i] \notin Range(attempts)
                       /\ response[i] \notin known_grades
            ELSE response[i] \in Range(attempts) \/ response[i] \in known_grades

FetchFailures == {"raise", "none", "nokey"}

\* C16: when get_data raises, returns nothing or returns an object without
\* "Grades", the cycle is skipped: the step that ends the fetch goes
\* straight to the sleep, with no dispatch, and leaves the set in memory
\* and the file as they were; the step that ends that sleep starts the next
\* cycle, and with no interrupt that step is taken.
C16_FailedFetchSkipsCycle ==
    /\ [][/\ (lastFetch = "pending" /\ lastFetch' \in FetchFailures) =>
                /\ pc = "Running" /\ pc' = "Sleeping"
                /\ UNCHANGED <<known_grades, path_exists, path_text>>
          /\ (lastFetch \in FetchFailures /\ lastFetch' # lastFetch) =>
                pc = "Sleeping" /\ pc' = "Running"]_vars
    /\ (lastFetch \in FetchFailures) ~> (pc = "Running")

C16_Witness ==
    /\ lastFetch = "none"
    /\ pc = "Sleeping"
    /\ known_grades # {}
    /\ path_text \notin SaveTexts(known_grades)

\* The run, with the identifiers whose save failed in this run recorded.
InitUnsaved == InitState /\ watch = {"unsaved"}
SpecUnsaved == InitUnsaved /\ [][Next]_vars

\* C17: a save that fails after a dispatch does not abort the cycle (the
\* loop goes on to the next grade, or to the sleep after the last one); the
\* identifier stays in the set in memory for as long as the process lives,
\* and no later step of the same process takes that grade to the dispatch
\* again.
C17_FailedPersistKeptInMemory ==
    [][/\ (unsaved' # unsaved /\ unsaved' # {} /\ pc' # "Crashed") =>
             pc = "Dispatching" /\ pc' = NextPc(response, idx)
       /\ unsaved' \subseteq known_grades'
       /\ pc' = "Dispatching" => RecordAt(response', idx') \notin unsaved']_vars

C17_Witness ==
    /\ pc = "Checking"
    /\ RecordAt(response, idx) \in unsaved
    /\ RecordAt(response, idx) \notin Persisted

\* The seen-set file holds text that json.loads rejects.
Corrupt == path_exists /\ Strip(path_text) # <<>> /\ JsonLoads(Strip(path_text)).exc

\* C18: load() discards a corrupt seen-set file: when the startup load has
\* returned, and before any save, the file no longer holds the corrupt
\* content.
C18_CorruptFileDiscarded == pc = "Authenticating" => ~Corrupt

\* C19: an identifier that occurs more than once in one fetch result is
\* dispatched at most once in that cycle: the dispatch attempts of a cycle
\* hold no identifier twice.
C19_DuplicateIdDispatchedOnce ==
    \A i, j \in 1..Len(attempts) : attempts[i] = attempts[j] => i = j

C19_Witness ==
    /\ pc = "Sleeping"
    /\ Len(response) = 2
    /\ response[1] = response[2]
    /\ attempts = <<response[1]>>

\* The run, with the outcome of the latest save of this run recorded.
InitSaved == InitState /\ watch = {"saved"}
SpecSaved == InitSaved /\ [][Next]_vars

\* C20: once the startup load has run, the set the file holds is a subset
\* of the set in memory; and from a save that succeeded until the next save
\* of the run, the file holds the dump of the whole set in memory, so that
\* the file is rewritten in full for each record, not once per cycle.
C20_FileWithinMemory ==
    /\ cfgOk = "ok" => Persisted \subseteq known_grades
    /\ saved = "ok" =>
         /\ path_exists
         /\ path_text \in SaveTexts(known_grades)
         /\ Persisted = known_grades

C20_Witness ==
    /\ pc = "Checking"
    /\ idx = 2
    /\ saved = "ok"
    /\ Cardinality(known_grades) = 2

C20_WitnessBehind ==
    /\ pc \in LoopPcs
    /\ saved = "failed"
    /\ Persisted # {}
    /\ Persisted # known_grades

====
